---- MODULE Spec2Model ----
(***************************************************************************)
(* A model of the publication aggregation pipeline of schola:              *)
(*   src/fetch_author_publications.py  fetch_author_publications,          *)
(*       fetch_citation_counts, compute_imputed_metrics,                   *)
(*       save_publications / build_html_content, main                      *)
(*   src/app.py                        results                             *)
(*                                                                         *)
(* Strings that the code compares, sorts or parses are sequences of        *)
(* characters.  A character is an integer: the digits '0'..'9' are 0..9    *)
(* and '-' is -1, which keeps the code-point order '-' < '0' < ... < '9'   *)
(* that Python's string comparison uses.  Names that are only compared     *)
(* for equality after upper() are TLA+ strings.                            *)
(***************************************************************************)
EXTENDS Integers, Sequences, FiniteSets, TLC

VARIABLES
    pc,                     \* position of the run
    caller,                 \* "web" (app.py results) or "cli" (main)
    output_format,          \* the output_format argument
    filter_author_position, \* the filter_author_position argument
    author_name,            \* the author_name argument, as its split() tokens
    db,                     \* the literature service: raw record of each id
    search_status,          \* "pending", "ok" or "failed": the esearch call
    ids,                    \* result["IdList"]
    publications,           \* the list being built, sorted and enriched
    fetch_log,              \* one entry per efetch call issued
    enrich_log,             \* one entry per iCite call issued
    appended,               \* PMIDs in the order of publications.append
    stages,                 \* the stages of the run, in the order they ran
    result,                 \* what the caller of fetch_author_publications got
    i,                      \* the fetch loop's index into ids
    pmids,                  \* fetch_citation_counts' list of PMIDs
    j,                      \* the enrich loop's index into pmids
    snapshots,              \* the list as it was before each imputer call
    now                     \* datetime.now().year as read by the imputer

vars == <<pc, caller, output_format, filter_author_position, author_name, db,
          search_status, ids, publications, fetch_log, enrich_log, appended, stages, result,
          i, pmids, j, snapshots, now>>

(***************************************************************************)
(* Bounds of the model.  The code's batch sizes are 100 (line 57) and 1000 *)
(* (line 178); the model scales them down so that several batches occur    *)
(* with a handful of records.                                              *)
(***************************************************************************)
MaxIds == 3

FetchBatchSize == 2

EnrichBatchSize == 2

MaxAuthors == 6

(***************************************************************************)
(* Values of dictionary fields: Python None, a str, or a number (int or    *)
(* float, kept as a reduced fraction n/d).                                 *)
(***************************************************************************)
None == [t |-> "none", s |-> "", n |-> 0, d |-> 1]

Str(s) == [t |-> "str", s |-> s, n |-> 0, d |-> 1]

RECURSIVE Gcd(_, _)
Gcd(a, b) == IF b = 0 THEN a ELSE Gcd(b, a % b)

Abs(x) == IF x < 0 THEN -x ELSE x

\* the number n/d (d > 0), reduced
Num(n, d) ==
    LET g == Gcd(Abs(n), d)
    IN  [t |-> "num", s |-> "", n |-> n \div g, d |-> d \div g]

IntVal(n) == Num(n, 1)

\* bool(v)
Truthy(v) ==
    CASE v.t = "none" -> FALSE
      [] v.t = "str"  -> v.s # ""
      [] v.t = "num"  -> v.n # 0

\* d.get(k, default)
Get(d, k, default) == IF k \in DOMAIN d THEN d[k] ELSE default

\* d[k] = v
Put(d, k, v) == [x \in DOMAIN d \cup {k} |-> IF x = k THEN v ELSE d[x]]

(***************************************************************************)
(* Character strings.                                                      *)
(***************************************************************************)
IsDigit(c) == c \in 0..9

IsDash(c) == c = -1

\* a < b for Python str
RECURSIVE LexLess(_, _)
LexLess(a, b) ==
    IF b = <<>> THEN FALSE
    ELSE IF a = <<>> THEN TRUE
    ELSE IF a[1] # b[1] THEN a[1] < b[1]
    ELSE LexLess(Tail(a), Tail(b))

\* str(n) for n >= 0
RECURSIVE IntToStr(_)
IntToStr(n) == IF n < 10 THEN <<n>> ELSE IntToStr(n \div 10) \o <<n % 10>>

RECURSIVE DigitsValue(_, _)
DigitsValue(s, acc) ==
    IF s = <<>> THEN acc ELSE DigitsValue(Tail(s), 10 * acc + s[1])

AllDigits(s) == s # <<>> /\ \A k \in 1..Len(s) : IsDigit(s[k])

\* int(s) succeeds: an optional sign, then digits
IntParses(s) ==
    \/ AllDigits(s)
    \/ s # <<>> /\ IsDash(s[1]) /\ AllDigits(Tail(s))

\* int(s) when it succeeds
IntValue(s) ==
    IF IsDash(s[1]) THEN -DigitsValue(Tail(s), 0) ELSE DigitsValue(s, 0)

\* s.upper() on the names of the model
Upper(s) ==
    CASE s \in {"Smith", "smith", "SMITH"} -> "SMITH"
      [] s \in {"Lee", "lee", "LEE"}       -> "LEE"
      [] OTHER                             -> s

(***************************************************************************)
(* The record loop of fetch_author_publications (lines 71-157).            *)
(*                                                                         *)
(* A raw record is                                                         *)
(*   [PMID, missing, hasYear, Year, hasMedlineDate, MedlineDate,           *)
(*    AuthorList]                                                          *)
(* where missing is the set of mandatory parts the record lacks            *)
(* ("Article", "PubDate", "PMID", "Title"), MedlineDate is the string as   *)
(* its split() tokens, and an AuthorList entry is                          *)
(*   [hasLast, LastName, hasInitials, Initials, hasCollective,             *)
(*    CollectiveName].                                                     *)
(* Title, DOI and abstract are text the pipeline copies and never reads    *)
(* again; they are left out of the Publication.                            *)
(***************************************************************************)

\* lines 78-81; the record's year string.  YearRaises tells line 81's IndexError.
YearRaises(record) ==
    /\ (~record.hasYear \/ record.Year = <<>>)
    /\ record.hasMedlineDate
    /\ record.MedlineDate = <<>>

RecordYear(record) ==
    LET year == IF record.hasYear THEN record.Year ELSE <<>>
    IN  IF year = <<>> /\ record.hasMedlineDate
        THEN record.MedlineDate[1]
        ELSE year

\* lines 98-105; a display name is kept as its tokens
RECURSIVE Authors(_)
Authors(author_list) ==
    IF author_list = <<>> THEN <<>>
    ELSE LET author == Head(author_list)
             rest == Authors(Tail(author_list))
         IN  IF author.hasLast /\ author.hasInitials
             THEN <<<<author.LastName, author.Initials>>>> \o rest
             ELSE IF author.hasCollective
             THEN <<<<author.CollectiveName>>>> \o rest
             ELSE rest

\* lines 109-115; the 0-based index, -1 for None
AuthorPosition(author_list, search_last_name) ==
    LET hits == {idx \in 1..Len(author_list) :
                    /\ author_list[idx].hasLast
                    /\ Upper(author_list[idx].LastName) = search_last_name}
    IN  IF hits = {} THEN -1
        ELSE (CHOOSE idx \in hits : \A other \in hits : idx <= other) - 1

\* lines 118-128; TRUE when the record is skipped by the position filter
SkippedByPosition(author_list, search_last_name) ==
    LET author_position == AuthorPosition(author_list, search_last_name)
        num_authors == Len(Authors(author_list))
        is_first_two == author_position < 2
        is_last_two == author_position >= num_authors - 2
    IN  IF author_position # -1
        THEN ~(is_first_two \/ is_last_two)
        ELSE TRUE

\* lines 142-151
PubInfo(record) ==
    [PMID |-> IntToStr(record.PMID),
     Year |-> RecordYear(record),
     Authors |-> Authors(record.AuthorList)]

\* lines 72-157, one iteration: "error" (the except clause), "skipped" (the
\* filter's continue) or "appended"
RecordOutcome(record, search_last_name, filter) ==
    IF "Article" \in record.missing THEN "error"
    ELSE IF "PubDate" \in record.missing THEN "error"
    ELSE IF YearRaises(record) THEN "error"
    ELSE IF "PMID" \in record.missing THEN "error"
    ELSE IF filter /\ SkippedByPosition(record.AuthorList, search_last_name)
    THEN "skipped"
    ELSE IF "Title" \in record.missing THEN "error"
    ELSE "appended"

\* a record loop that a record's error ends
RECURSIVE ProcessRecordsAbortOnError(_, _, _)
ProcessRecordsAbortOnError(records, search_last_name, filter) ==
    IF records = <<>> THEN <<>>
    ELSE LET record == Head(records)
             outcome == RecordOutcome(record, search_last_name, filter)
         IN  IF outcome = "error" THEN <<>>
             ELSE IF outcome = "appended"
             THEN <<PubInfo(record)>>
                    \o ProcessRecordsAbortOnError(Tail(records), search_last_name, filter)
             ELSE ProcessRecordsAbortOnError(Tail(records), search_last_name, filter)

\* lines 71-157: the publications a batch's records append, in order
RECURSIVE ProcessRecords(_, _, _)
ProcessRecords(records, search_last_name, filter) ==
    IF records = <<>> THEN <<>>
    ELSE LET record == Head(records)
             rest == ProcessRecords(Tail(records), search_last_name, filter)
         IN  IF RecordOutcome(record, search_last_name, filter) = "appended"
             THEN <<PubInfo(record)>> \o rest
             ELSE rest

(***************************************************************************)
(* publications.sort(key=Year, reverse=True), line 160: Python's sort is   *)
(* stable, also with reverse=True.                                         *)
(***************************************************************************)
\* a sort that is not stable: pub goes before the elements of equal key
RECURSIVE InsertBeforeTies(_, _)
InsertBeforeTies(sorted, pub) ==
    IF sorted = <<>> THEN <<pub>>
    ELSE IF ~LexLess(Get(pub, "Year", <<>>), Get(Head(sorted), "Year", <<>>))
    THEN <<pub>> \o sorted
    ELSE <<Head(sorted)>> \o InsertBeforeTies(Tail(sorted), pub)

\* pub goes after every element whose key is >= its own
RECURSIVE InsertByYearDesc(_, _)
InsertByYearDesc(sorted, pub) ==
    IF sorted = <<>> THEN <<pub>>
    ELSE IF LexLess(Get(Head(sorted), "Year", <<>>), Get(pub, "Year", <<>>))
    THEN <<pub>> \o sorted
    ELSE <<Head(sorted)>> \o InsertByYearDesc(Tail(sorted), pub)

RECURSIVE SortFrom(_, _)
SortFrom(sorted, pubs) ==
    IF pubs = <<>> THEN sorted
    ELSE SortFrom(InsertByYearDesc(sorted, Head(pubs)), Tail(pubs))

SortByYearDesc(pubs) == SortFrom(<<>>, pubs)

(***************************************************************************)
(* fetch_citation_counts (lines 169-235).  An item of the iCite response   *)
(* is a dictionary [pmid, citation_count, relative_citation_ratio,         *)
(* field_citation_rate]; a key the service left out is not in its DOMAIN.  *)
(***************************************************************************)
\* lines 196-200
CitationEntry(item) ==
    [citation_count |-> Get(item, "citation_count", IntVal(0)),
     relative_citation_ratio |-> Get(item, "relative_citation_ratio", Str("")),
     field_citation_rate |-> Get(item, "field_citation_rate", Str(""))]

\* lines 192-200; a later item of the same pmid replaces an earlier one
CitationMap(data) ==
    LET keys == {IntToStr(data[k].pmid) : k \in 1..Len(data)}
        last(key) == CHOOSE k \in 1..Len(data) :
                        /\ IntToStr(data[k].pmid) = key
                        /\ \A m \in 1..Len(data) :
                              IntToStr(data[m].pmid) = key => m <= k
    IN  [key \in keys |-> CitationEntry(data[last(key)])]

\* lines 210-212, 220-222, 231-233
WithEmptyCitationFields(pub) ==
    Put(Put(Put(pub, "Citation_Count", Str("")), "RCR", Str("")),
        "Field_Citation_Rate", Str(""))

\* lines 205-208
WithCitationData(pub, cite_data) ==
    Put(Put(Put(pub, "Citation_Count", cite_data.citation_count),
            "RCR", cite_data.relative_citation_ratio),
        "Field_Citation_Rate", cite_data.field_citation_rate)

\* lines 203-212: the loop runs over every publication of the list
ApplyCitationMap(pubs, citation_map) ==
    [k \in 1..Len(pubs) |->
        IF pubs[k].PMID \in DOMAIN citation_map
        THEN WithCitationData(pubs[k], citation_map[pubs[k].PMID])
        ELSE WithEmptyCitationFields(pubs[k])]

\* a failure branch that adds nothing
LeaveUnvisited(pubs) == pubs

\* a failure branch that blanks every publication
BlankEveryPublication(pubs) ==
    [k \in 1..Len(pubs) |-> WithEmptyCitationFields(pubs[k])]

\* lines 218-222 and 229-233
AddEmptyCitationFields(pubs) ==
    [k \in 1..Len(pubs) |->
        IF "Citation_Count" \notin DOMAIN pubs[k]
        THEN WithEmptyCitationFields(pubs[k])
        ELSE pubs[k]]

(***************************************************************************)
(* compute_imputed_metrics (lines 272-294) and the copy of its loop in     *)
(* build_html_content (lines 318-339).                                     *)
(***************************************************************************)
\* float(s) succeeds, on the strings of the model
FloatParses(s) == s \in {"0.87", "0", "2.5"}

FloatOfStr(s) ==
    CASE s = "0.87" -> Num(87, 100)
      [] s = "0"    -> Num(0, 1)
      [] s = "2.5"  -> Num(5, 2)

\* lines 290-293: float(pub["RCR"]), 1.5 when it raises
FloatOrFallback(rcr) ==
    IF rcr.t = "num" THEN rcr
    ELSE IF rcr.t = "str" /\ FloatParses(rcr.s) THEN FloatOfStr(rcr.s)
    ELSE Num(3, 2)

\* an estimate without the + 1 for a current or future year
CitationVelocityNoBonus(year, citations, year_now) ==
    IF ~IntParses(year) \/ citations.t # "num" THEN IntVal(0)
    ELSE LET years_since == year_now - IntValue(year)
         IN  IF years_since > 0
             THEN Num(citations.n, citations.d * years_since)
             ELSE citations

\* lines 279-286: the estimate, 0 when int(year) or the arithmetic raises
CitationVelocity(year, citations, year_now) ==
    IF ~IntParses(year) \/ citations.t # "num" THEN IntVal(0)
    ELSE LET years_since == year_now - IntValue(year)
         IN  IF years_since > 0
             THEN Num(citations.n, citations.d * years_since)
             ELSE Num(citations.n + citations.d, citations.d)

\* an imputer that builds on the value it stored before
RCRImputedCompounding(pub, year_now) ==
    LET rcr == Get(pub, "RCR", None)
        fresh == IF ~Truthy(rcr) \/ rcr = Str("")
                 THEN LET year == Get(pub, "Year", <<>>)
                          citations == Get(pub, "Citation_Count", IntVal(0))
                      IN  IF year # <<>> /\ Truthy(citations)
                          THEN CitationVelocity(year, citations, year_now)
                          ELSE IntVal(0)
                 ELSE FloatOrFallback(rcr)
    IN  IF "RCR_imputed" \in DOMAIN pub
        THEN Num(pub.RCR_imputed.n * fresh.d + fresh.n * pub.RCR_imputed.d,
                 pub.RCR_imputed.d * fresh.d)
        ELSE fresh

\* lines 275-293: the value stored in pub["RCR_imputed"]
RCRImputed(pub, year_now) ==
    LET rcr == Get(pub, "RCR", None)
    IN  IF ~Truthy(rcr) \/ rcr = Str("")
        THEN LET year == Get(pub, "Year", <<>>)
                 citations == Get(pub, "Citation_Count", IntVal(0))
             IN  IF year # <<>> /\ Truthy(citations)
                 THEN CitationVelocity(year, citations, year_now)
                 ELSE IntVal(0)
        ELSE FloatOrFallback(rcr)

\* lines 272-294
compute_imputed_metrics(pubs, year_now) ==
    [k \in 1..Len(pubs) |->
        Put(pubs[k], "RCR_imputed", RCRImputed(pubs[k], year_now))]

\* lines 318-339: the same loop, written out a second time in the source
build_html_content(pubs, year_now) ==
    [k \in 1..Len(pubs) |->
        LET pub == pubs[k]
            rcr == Get(pub, "RCR", None)
            year == Get(pub, "Year", <<>>)
            citations == Get(pub, "Citation_Count", IntVal(0))
            value == IF ~Truthy(rcr) \/ rcr = Str("")
                     THEN IF year # <<>> /\ Truthy(citations)
                          THEN CitationVelocity(year, citations, year_now)
                          ELSE IntVal(0)
                     ELSE FloatOrFallback(rcr)
        IN  Put(pub, "RCR_imputed", value)]

(***************************************************************************)
(* The services.  The literature service holds one raw record per id; the  *)
(* citation service holds one item per pmid and may leave any of them out  *)
(* of a response.                                                          *)
(***************************************************************************)
Y2020 == <<2, 0, 2, 0>>

Y2025 == <<2, 0, 2, 5>>

Person(last, initials) ==
    [hasLast |-> TRUE, LastName |-> last, hasInitials |-> TRUE,
     Initials |-> initials, hasCollective |-> FALSE, CollectiveName |-> ""]

LastOnly(last) ==
    [hasLast |-> TRUE, LastName |-> last, hasInitials |-> FALSE,
     Initials |-> "", hasCollective |-> FALSE, CollectiveName |-> ""]

Collective(name) ==
    [hasLast |-> FALSE, LastName |-> "", hasInitials |-> FALSE,
     Initials |-> "", hasCollective |-> TRUE, CollectiveName |-> name]

Nameless ==
    [hasLast |-> FALSE, LastName |-> "", hasInitials |-> FALSE,
     Initials |-> "", hasCollective |-> FALSE, CollectiveName |-> ""]

Raw(missing, hasYear, year, hasMedlineDate, medlineDate, author_list) ==
    [PMID |-> 0, missing |-> missing, hasYear |-> hasYear, Year |-> year,
     hasMedlineDate |-> hasMedlineDate, MedlineDate |-> medlineDate,
     AuthorList |-> author_list]

\* the record shapes the literature service of the pipeline run holds
RawRecords ==
    { Raw({}, TRUE, Y2020, FALSE, <<>>,
          <<Person("Smith", "J"), Person("Lee", "K")>>),
      Raw({}, TRUE, Y2025, FALSE, <<>>,
          <<Person("Lee", "K"), Person("SMITH", "JA")>>),
      \* no Year; MedlineDate "2020 JAN"
      Raw({}, FALSE, <<>>, TRUE, <<Y2020, <<19, 10, 23>>>>,
          <<Person("smith", "J")>>),
      \* the searched author third of five
      Raw({}, TRUE, Y2025, FALSE, <<>>,
          <<Person("Lee", "K"), Person("Lee", "A"), Person("Smith", "J"),
            Person("Lee", "B"), Person("Lee", "C")>>),
      \* no journal title: line 140 raises
      Raw({"Title"}, TRUE, Y2020, FALSE, <<>>,
          <<Person("Smith", "J")>>) }

\* the item the citation service holds for a pmid
ICiteItem(pmid) ==
    CASE pmid = 1 -> [pmid |-> 1, citation_count |-> IntVal(10),
                      relative_citation_ratio |-> Num(87, 100),
                      field_citation_rate |-> Num(7, 2)]
      [] pmid = 2 -> [pmid |-> 2, citation_count |-> IntVal(0),
                      relative_citation_ratio |-> None,
                      field_citation_rate |-> None]
      [] pmid = 3 -> [pmid |-> 3, citation_count |-> IntVal(3),
                      relative_citation_ratio |-> IntVal(0),
                      field_citation_rate |-> Num(7, 2)]
      [] OTHER    -> [pmid |-> pmid, citation_count |-> IntVal(3)]

NowYears == {2025, 2026}

Formats == {"csv", "json", "html", "both"}

(***************************************************************************)
(* The run.                                                                *)
(***************************************************************************)
\* line 33
search_last_name == Upper(author_name[1])

Min(a, b) == IF a < b THEN a ELSE b

\* ids[i:i+batch_size], line 60 (and pmids[i:i+batch_size], line 182)
Slice(seq, from, size) == SubSeq(seq, from + 1, Min(from + size, Len(seq)))

PMIDsOf(pubs) == [k \in 1..Len(pubs) |-> pubs[k].PMID]

RECURSIVE SelectItems(_, _)
SelectItems(batch, present) ==
    IF batch = <<>> THEN <<>>
    ELSE IF Head(batch) \in present
    THEN <<ICiteItem(DigitsValue(Head(batch), 0))>> \o SelectItems(Tail(batch), present)
    ELSE SelectItems(Tail(batch), present)

Init ==
    /\ pc = "start"
    /\ caller \in {"web", "cli"}
    \* results passes 'html' and the request's filter_position (lines 61-73);
    \* main passes --format and leaves filter_author_position at its default
    /\ output_format \in IF caller = "web" THEN {"html"} ELSE Formats
    /\ filter_author_position \in IF caller = "web" THEN BOOLEAN ELSE {TRUE}
    /\ author_name = <<"Smith", "J">>
    /\ \E n \in 0..MaxIds :
          \E shapes \in [1..n -> RawRecords] :
             db = [k \in 1..n |-> [shapes[k] EXCEPT !.PMID = k]]
    /\ search_status = "pending"
    /\ ids = <<>>
    /\ publications = <<>>
    /\ fetch_log = <<>>
    /\ enrich_log = <<>>
    /\ appended = <<>>
    /\ stages = <<>>
    /\ result = "none"
    /\ i = 0
    /\ pmids = <<>>
    /\ j = 0
    /\ snapshots = <<>>
    /\ now = 0

\* lines 45-52: the search answers; an empty IdList returns [] at once
SearchOk ==
    /\ pc = "start"
    /\ search_status' = "ok"
    /\ ids' = [k \in 1..Len(db) |-> k]
    /\ stages' = Append(stages, "search")
    /\ IF Len(db) = 0
       THEN pc' = "returned" /\ result' = "list"
       ELSE pc' = "fetch" /\ result' = result
    /\ UNCHANGED <<snapshots, caller, output_format, filter_author_position, author_name,
                   db, publications, fetch_log, enrich_log, appended, i, pmids,
                   j, now>>

\* lines 45-46: esearch or Entrez.read raises, outside any try
SearchFails ==
    /\ pc = "start"
    /\ search_status' = "failed"
    /\ pc' = "raised"
    /\ result' = "error"
    /\ stages' = Append(stages, "search")
    /\ UNCHANGED <<snapshots, caller, output_format, filter_author_position, author_name,
                   db, ids, publications, fetch_log, enrich_log, appended, i,
                   pmids, j, now>>

\* lines 59-66, 71-157: one batch fetched and its records processed
FetchBatchOk ==
    /\ pc = "fetch"
    /\ i < Len(ids)
    /\ LET batch_ids == Slice(ids, i, FetchBatchSize)
           records == [k \in 1..Len(batch_ids) |-> db[batch_ids[k]]]
           new == ProcessRecords(records, search_last_name, filter_author_position)
       IN  /\ publications' = publications \o new
           /\ appended' = appended \o PMIDsOf(new)
           /\ fetch_log' = Append(fetch_log,
                                  [start |-> i, batch |-> batch_ids, ok |-> TRUE])
    /\ i' = i + FetchBatchSize
    /\ stages' = Append(stages, "fetch")
    /\ UNCHANGED <<snapshots, search_status, pc, caller, output_format,
                   filter_author_position,
                   author_name, db, ids, enrich_log, result, pmids, j, now>>

\* a fetch failure that is not caught
FetchBatchFailsAborts ==
    /\ pc = "fetch"
    /\ i < Len(ids)
    /\ fetch_log' = Append(fetch_log,
                           [start |-> i, batch |-> Slice(ids, i, FetchBatchSize),
                            ok |-> FALSE])
    /\ pc' = "raised"
    /\ result' = "error"
    /\ stages' = Append(stages, "fetch")
    /\ UNCHANGED <<snapshots, search_status, caller, output_format,
                   filter_author_position, author_name, db, ids, publications,
                   enrich_log, appended, i, pmids, j, now>>

\* a fetch failure that ends the batch loop (break for continue)
FetchBatchFailsBreaks ==
    /\ pc = "fetch"
    /\ i < Len(ids)
    /\ fetch_log' = Append(fetch_log,
                           [start |-> i, batch |-> Slice(ids, i, FetchBatchSize),
                            ok |-> FALSE])
    /\ i' = Len(ids)
    /\ stages' = Append(stages, "fetch")
    /\ UNCHANGED <<snapshots, search_status, pc, caller, output_format,
                   filter_author_position, author_name, db, ids, publications,
                   enrich_log, appended, result, pmids, j, now>>

\* lines 63-69: efetch or Entrez.read raises; the batch is skipped
FetchBatchFails ==
    /\ pc = "fetch"
    /\ i < Len(ids)
    /\ fetch_log' = Append(fetch_log,
                           [start |-> i, batch |-> Slice(ids, i, FetchBatchSize),
                            ok |-> FALSE])
    /\ i' = i + FetchBatchSize
    /\ stages' = Append(stages, "fetch")
    /\ UNCHANGED <<snapshots, search_status, pc, caller, output_format,
                   filter_author_position,
                   author_name, db, ids, publications, enrich_log, appended,
                   result, pmids, j, now>>

\* a run that enters fetch_citation_counts without sorting
SortOmitted ==
    /\ pc = "fetch"
    /\ i >= Len(ids)
    /\ pmids' = PMIDsOf(publications)
    /\ j' = 0
    /\ pc' = "enrich"
    /\ UNCHANGED <<snapshots, search_status, caller, output_format,
                   filter_author_position, author_name, db, ids, publications,
                   fetch_log, enrich_log, appended, stages, result, i, now>>

\* lines 159-164, 178-179: the sort, then fetch_citation_counts is entered
Sort ==
    /\ pc = "fetch"
    /\ i >= Len(ids)
    /\ publications' = SortByYearDesc(publications)
    /\ pmids' = PMIDsOf(publications')
    /\ j' = 0
    /\ pc' = "enrich"
    /\ stages' = Append(stages, "sort")
    /\ UNCHANGED <<snapshots, search_status, caller, output_format,
                   filter_author_position, author_name,
                   db, ids, fetch_log, enrich_log, appended, result, i, now>>

\* lines 181-214: status 200; the response holds the items of some pmids
EnrichBatchOk ==
    /\ pc = "enrich"
    /\ j < Len(pmids)
    /\ LET batch_pmids == Slice(pmids, j, EnrichBatchSize)
       IN  \E present \in SUBSET {batch_pmids[k] : k \in 1..Len(batch_pmids)} :
              LET data == SelectItems(batch_pmids, present)
              IN  /\ publications' = ApplyCitationMap(publications, CitationMap(data))
                  /\ enrich_log' = Append(enrich_log,
                                          [start |-> j, batch |-> batch_pmids,
                                           status |-> "ok", data |-> data])
    /\ j' = j + EnrichBatchSize
    /\ stages' = Append(stages, "enrich")
    /\ UNCHANGED <<snapshots, search_status, pc, caller, output_format,
                   filter_author_position,
                   author_name, db, ids, fetch_log, appended, result, i, pmids,
                   now>>

\* lines 215-222: any other status
EnrichBatchNon200 ==
    /\ pc = "enrich"
    /\ j < Len(pmids)
    /\ publications' = AddEmptyCitationFields(publications)
    /\ enrich_log' = Append(enrich_log,
                            [start |-> j, batch |-> Slice(pmids, j, EnrichBatchSize),
                             status |-> "non200", data |-> <<>>])
    /\ j' = j + EnrichBatchSize
    /\ stages' = Append(stages, "enrich")
    /\ UNCHANGED <<snapshots, search_status, pc, caller, output_format,
                   filter_author_position,
                   author_name, db, ids, fetch_log, appended, result, i, pmids,
                   now>>

\* a transport exception that is not caught
EnrichBatchRaisesPropagates ==
    /\ pc = "enrich"
    /\ j < Len(pmids)
    /\ enrich_log' = Append(enrich_log,
                            [start |-> j, batch |-> Slice(pmids, j, EnrichBatchSize),
                             status |-> "exception", data |-> <<>>])
    /\ pc' = "raised"
    /\ result' = "error"
    /\ stages' = Append(stages, "enrich")
    /\ UNCHANGED <<snapshots, search_status, caller, output_format,
                   filter_author_position, author_name, db, ids, publications,
                   fetch_log, appended, i, pmids, j, now>>

\* lines 226-233: requests.get or response.json() raises
EnrichBatchRaises ==
    /\ pc = "enrich"
    /\ j < Len(pmids)
    /\ publications' = AddEmptyCitationFields(publications)
    /\ enrich_log' = Append(enrich_log,
                            [start |-> j, batch |-> Slice(pmids, j, EnrichBatchSize),
                             status |-> "exception", data |-> <<>>])
    /\ j' = j + EnrichBatchSize
    /\ stages' = Append(stages, "enrich")
    /\ UNCHANGED <<snapshots, search_status, pc, caller, output_format,
                   filter_author_position,
                   author_name, db, ids, fetch_log, appended, result, i, pmids,
                   now>>

\* lines 235, 166: fetch_author_publications returns the list
Return ==
    /\ pc = "enrich"
    /\ j >= Len(pmids)
    /\ pc' = "returned"
    /\ result' = "list"
    /\ UNCHANGED <<snapshots, search_status, caller, output_format,
                   filter_author_position, author_name,
                   db, ids, publications, fetch_log, enrich_log, appended,
                   stages, i, pmids, j, now>>

\* app.py lines 75, 79: the web route imputes, then renders
WebImpute ==
    /\ pc = "returned"
    /\ caller = "web"
    /\ \E year_now \in NowYears :
          /\ now' = year_now
          /\ publications' = compute_imputed_metrics(publications, year_now)
    /\ pc' = "rendered"
    /\ stages' = Append(stages, "impute")
    /\ UNCHANGED <<snapshots, search_status, caller, output_format,
                   filter_author_position, author_name,
                   db, ids, fetch_log, enrich_log, appended, result, i, pmids, j>>

\* app.py lines 76-77: the error page
WebError ==
    /\ pc = "raised"
    /\ caller = "web"
    /\ pc' = "error_page"
    /\ UNCHANGED <<snapshots, search_status, caller, output_format,
                   filter_author_position, author_name,
                   db, ids, publications, fetch_log, enrich_log, appended,
                   stages, result, i, pmids, j, now>>

\* lines 624-626, 251-269: main saves a non-empty list; only the html
\* writer (build_html_content) imputes
CliSave ==
    /\ pc = "returned"
    /\ caller = "cli"
    /\ publications # <<>>
    /\ IF output_format \in {"html", "both"}
       THEN \E year_now \in NowYears :
               /\ now' = year_now
               /\ publications' = build_html_content(publications, year_now)
               /\ stages' = Append(stages, "impute")
       ELSE UNCHANGED <<now, publications, stages>>
    /\ pc' = "saved"
    /\ UNCHANGED <<snapshots, search_status, caller, output_format,
                   filter_author_position, author_name,
                   db, ids, fetch_log, enrich_log, appended, result, i, pmids, j>>

\* lines 634-635: "No publications found."
CliNothing ==
    /\ pc = "returned"
    /\ caller = "cli"
    /\ publications = <<>>
    /\ pc' = "nothing_found"
    /\ UNCHANGED <<snapshots, search_status, caller, output_format,
                   filter_author_position, author_name,
                   db, ids, publications, fetch_log, enrich_log, appended,
                   stages, result, i, pmids, j, now>>

Next ==
    \/ SearchOk
    \/ SearchFails
    \/ FetchBatchOk
    \/ FetchBatchFails
    \/ Sort
    \/ EnrichBatchOk
    \/ EnrichBatchNon200
    \/ EnrichBatchRaises
    \/ Return
    \/ WebImpute
    \/ WebError
    \/ CliSave
    \/ CliNothing

Spec == Init /\ [][Next]_vars

(***************************************************************************)
(* The run under the assumption that every remote call returns or fails    *)
(* and the sequential program goes on: a step that can be taken is taken.  *)
(***************************************************************************)
SpecLive == Init /\ [][Next]_vars /\ WF_vars(Next)

(***************************************************************************)
(* The record loop alone: one raw record, every author list of up to       *)
(* MaxAuthors entries, processed by the loop body of lines 71-157.         *)
(***************************************************************************)
AuthorEntries ==
    { Person("Smith", "J"), Person("Lee", "K"), LastOnly("smith"),
      Collective("Consortium"), Nameless }

AuthorLists == UNION {[1..n -> AuthorEntries] : n \in 0..MaxAuthors}

InitFilter ==
    /\ pc = "record"
    /\ caller = "web"
    /\ output_format = "html"
    /\ filter_author_position \in BOOLEAN
    /\ author_name = <<"Smith", "J">>
    /\ \E author_list \in AuthorLists, missing \in {{}, {"Title"}} :
          db = <<[Raw(missing, TRUE, Y2020, FALSE, <<>>, author_list)
                    EXCEPT !.PMID = 1]>>
    /\ search_status = "ok"
    /\ ids = <<1>>
    /\ publications = <<>>
    /\ fetch_log = <<>>
    /\ enrich_log = <<>>
    /\ appended = <<>>
    /\ stages = <<>>
    /\ result = "none"
    /\ i = 0
    /\ pmids = <<>>
    /\ j = 0
    /\ snapshots = <<>>
    /\ now = 0

\* lines 71-157 on the one record
ProcessOneRecord ==
    /\ pc = "record"
    /\ publications' = ProcessRecords(db, search_last_name, filter_author_position)
    /\ pc' = "processed"
    /\ UNCHANGED <<snapshots, search_status, caller, output_format,
                   filter_author_position, author_name, db, ids, fetch_log,
                   enrich_log, appended, stages, result, i, pmids, j, now>>

NextFilter == ProcessOneRecord

SpecFilter == InitFilter /\ [][NextFilter]_vars

(***************************************************************************)
(* The fetch loop over records of every shape: well-formed ones, one       *)
(* lacking each mandatory part, one whose date text is blank, and one the  *)
(* position filter skips.  The run is followed up to the sort.             *)
(***************************************************************************)
RecordShapes ==
    { Raw({}, TRUE, Y2020, FALSE, <<>>, <<Person("Smith", "J")>>),
      Raw({}, FALSE, <<>>, TRUE, <<Y2025, <<19, 10, 23>>>>,
          <<Person("Lee", "K"), Person("Smith", "J")>>),
      Raw({"Article"}, TRUE, Y2020, FALSE, <<>>, <<Person("Smith", "J")>>),
      Raw({"PubDate"}, TRUE, Y2020, FALSE, <<>>, <<Person("Smith", "J")>>),
      Raw({"PMID"}, TRUE, Y2020, FALSE, <<>>, <<Person("Smith", "J")>>),
      Raw({"Title"}, TRUE, Y2020, FALSE, <<>>, <<Person("Smith", "J")>>),
      \* no Year and a blank MedlineDate: split()[0] raises
      Raw({}, FALSE, <<>>, TRUE, <<>>, <<Person("Smith", "J")>>),
      Raw({}, TRUE, Y2025, FALSE, <<>>,
          <<Person("Lee", "K"), Person("Lee", "A"), Person("Smith", "J"),
            Person("Lee", "B"), Person("Lee", "C")>>) }

InitRecords ==
    /\ pc = "start"
    /\ caller = "web"
    /\ output_format = "html"
    /\ filter_author_position \in BOOLEAN
    /\ author_name = <<"Smith", "J">>
    /\ \E n \in 0..MaxIds :
          \E shapes \in [1..n -> RecordShapes] :
             db = [k \in 1..n |-> [shapes[k] EXCEPT !.PMID = k]]
    /\ search_status = "pending"
    /\ ids = <<>>
    /\ publications = <<>>
    /\ fetch_log = <<>>
    /\ enrich_log = <<>>
    /\ appended = <<>>
    /\ stages = <<>>
    /\ result = "none"
    /\ i = 0
    /\ pmids = <<>>
    /\ j = 0
    /\ snapshots = <<>>
    /\ now = 0

NextRecords ==
    \/ SearchOk
    \/ FetchBatchOk
    \/ FetchBatchFails
    \/ Sort

SpecRecords == InitRecords /\ [][NextRecords]_vars

(***************************************************************************)
(* The imputer alone: one publication with every combination of RCR, Year  *)
(* and Citation_Count values, imputed by compute_imputed_metrics.          *)
(***************************************************************************)
MaxCitations == 3

RCRValues ==
    { None, Str(""), IntVal(0), Num(87, 100), Str("0.87"), Str("0"),
      Str("n/a") }

YearValues ==
    { <<>>, Y2020, Y2025, <<2, 0, 2, 6>>, <<2, 0, 1, 9, -1, 2, 0, 2, 0>> }

CitationValues ==
    { None, Str(""), Str("5"), IntVal(10) } \cup {IntVal(c) : c \in 0..MaxCitations}

\* a publication as the pipeline leaves it, with or without the citation keys
ImputerInputs ==
    { [PMID |-> <<1>>, Year |-> year, Authors |-> <<>>] : year \in YearValues }
    \cup
    { [PMID |-> <<1>>, Year |-> year, Authors |-> <<>>, Citation_Count |-> cc,
       RCR |-> rcr, Field_Citation_Rate |-> Str("")] :
         year \in YearValues, cc \in CitationValues, rcr \in RCRValues }

InitImpute ==
    /\ pc = "impute"
    /\ caller = "web"
    /\ output_format = "html"
    /\ filter_author_position = TRUE
    /\ author_name = <<"Smith", "J">>
    /\ db = <<>>
    /\ search_status = "ok"
    /\ ids = <<>>
    /\ \E pub \in ImputerInputs : publications = <<pub>>
    /\ fetch_log = <<>>
    /\ enrich_log = <<>>
    /\ appended = <<>>
    /\ stages = <<>>
    /\ result = "list"
    /\ i = 0
    /\ pmids = <<>>
    /\ j = 0
    /\ snapshots = <<>>
    /\ now = 0

\* lines 272-294
ImputeStep ==
    /\ pc = "impute"
    /\ \E year_now \in NowYears :
          /\ now' = year_now
          /\ publications' = compute_imputed_metrics(publications, year_now)
    /\ snapshots' = Append(snapshots, publications)
    /\ pc' = "imputed"
    /\ UNCHANGED <<search_status, caller, output_format,
                   filter_author_position, author_name, db, ids, fetch_log,
                   enrich_log, appended, stages, result, i, pmids, j>>

\* lines 272-294 a second time, in the same year
ImputeAgain ==
    /\ pc = "imputed"
    /\ publications' = compute_imputed_metrics(publications, now)
    /\ snapshots' = Append(snapshots, publications)
    /\ pc' = "imputed_twice"
    /\ UNCHANGED <<search_status, caller, output_format,
                   filter_author_position, author_name, db, ids, fetch_log,
                   enrich_log, appended, stages, result, i, pmids, j, now>>

\* lines 318-339 on the imputed list, in the same year
HtmlAfterImpute ==
    /\ pc = "imputed"
    /\ publications' = build_html_content(publications, now)
    /\ snapshots' = Append(snapshots, publications)
    /\ pc' = "imputed_twice"
    /\ UNCHANGED <<search_status, caller, output_format,
                   filter_author_position, author_name, db, ids, fetch_log,
                   enrich_log, appended, stages, result, i, pmids, j, now>>

NextImpute ==
    \/ ImputeStep
    \/ ImputeAgain
    \/ HtmlAfterImpute

SpecImpute == InitImpute /\ [][NextImpute]_vars

(***************************************************************************)
(* Properties of the run (specification Spec).                             *)
(***************************************************************************)
CitationKeys == {"Citation_Count", "RCR", "Field_Citation_Rate"}

\* pub carries exactly the values of cite_data
HasCitationData(pub, cite_data) ==
    /\ CitationKeys \subseteq DOMAIN pub
    /\ pub.Citation_Count = cite_data.citation_count
    /\ pub.RCR = cite_data.relative_citation_ratio
    /\ pub.Field_Citation_Rate = cite_data.field_citation_rate

HasEmptyCitationData(pub) ==
    /\ CitationKeys \subseteq DOMAIN pub
    /\ pub.Citation_Count = Str("")
    /\ pub.RCR = Str("")
    /\ pub.Field_Citation_Rate = Str("")

\* the enrich call whose batch holds the k-th publication
OwnBatch(k) == enrich_log[((k - 1) \div EnrichBatchSize) + 1]

\* C1: when fetch_citation_counts has returned, a publication whose own
\* batch succeeded with an entry for its id carries that entry's
\* citation_count, impact_ratio and field_rate, whatever happened to the
\* other batches.
EnrichedValuesSurviveOtherBatches ==
    pc = "returned" =>
        \A k \in 1..Len(publications) :
            LET call == OwnBatch(k)
                citation_map == CitationMap(call.data)
            IN  (call.status = "ok" /\ publications[k].PMID \in DOMAIN citation_map)
                    => HasCitationData(publications[k],
                                       citation_map[publications[k].PMID])

\* C2: for a non-empty list, when fetch_citation_counts has returned every
\* publication has all three citation fields, holding either the explicit
\* empty value or the values of an entry of some response for its id.
CitationFieldsAlwaysSet ==
    (result = "list" /\ publications # <<>>) =>
        \A k \in 1..Len(publications) :
            \/ HasEmptyCitationData(publications[k])
            \/ \E c \in 1..Len(enrich_log) :
                  /\ enrich_log[c].status = "ok"
                  /\ publications[k].PMID \in DOMAIN CitationMap(enrich_log[c].data)
                  /\ HasCitationData(publications[k],
                        CitationMap(enrich_log[c].data)[publications[k].PMID])

\* C2's case: a list of several batches, one answered, one refused and one
\* that raised among them
MixedEnrichOutcomes ==
    /\ result = "list"
    /\ publications # <<>>
    /\ Len(enrich_log) >= 2
    /\ \E c \in 1..Len(enrich_log) : enrich_log[c].status # "ok"
    /\ \E c \in 1..Len(enrich_log) : enrich_log[c].status = "ok"
    /\ \E k \in 1..Len(publications) : HasEmptyCitationData(publications[k])

\* C3: every publication of the list fetch_author_publications returns has
\* RCR_imputed defined.
ReturnedListIsImputed ==
    pc = "returned" =>
        \A k \in 1..Len(publications) : "RCR_imputed" \in DOMAIN publications[k]

\* the ids of the batches whose fetch succeeded
FetchedIds ==
    UNION {{fetch_log[c].batch[k] : k \in 1..Len(fetch_log[c].batch)} :
              c \in {c \in 1..Len(fetch_log) : fetch_log[c].ok}}

\* the PMIDs of the fetched records that normalize and pass the filter
SurvivingPMIDs ==
    {IntToStr(id) : id \in {id \in FetchedIds :
        RecordOutcome(db[id], search_last_name, filter_author_position)
            = "appended"}}

\* C4: once the search has succeeded no fetch failure raises to the caller,
\* and the returned list holds exactly the surviving records of the batches
\* whose fetch succeeded, each once.
FailedFetchBatchesAreSkipped ==
    /\ search_status = "ok" => (result # "error" /\ pc # "raised")
    /\ result = "list" =>
          /\ {publications[k].PMID : k \in 1..Len(publications)} = SurvivingPMIDs
          /\ Len(publications) = Cardinality(SurvivingPMIDs)

\* C4's case: three ids, the batch of the first two fetched, the batch of
\* the third failed, and the first two returned
TwoFetchedThirdFailed ==
    /\ result = "list"
    /\ Len(ids) = 3
    /\ Len(fetch_log) = 2
    /\ fetch_log[1].ok
    /\ ~fetch_log[2].ok
    /\ {publications[k].PMID : k \in 1..Len(publications)} = {<<1>>, <<2>>}

\* C5: an error reaches the caller exactly when the search call failed, and
\* then no fetch or enrich call was issued and no list was built; the web
\* route shows its error page only then.  No failure of a fetch batch, an
\* enrich batch or a record leaves fetch_author_publications.
OnlySearchFailureSurfaces ==
    /\ (result = "error") <=> (search_status = "failed")
    /\ (pc \in {"raised", "error_page"}) <=> (search_status = "failed")
    /\ result = "error" =>
          /\ fetch_log = <<>>
          /\ enrich_log = <<>>
          /\ publications = <<>>
    /\ (\/ \E c \in 1..Len(fetch_log) : ~fetch_log[c].ok
        \/ \E c \in 1..Len(enrich_log) : enrich_log[c].status # "ok"
        \/ \E id \in FetchedIds :
              RecordOutcome(db[id], search_last_name, filter_author_position)
                  = "error")
          => result # "error"

\* C5's case: the search failed and the web route shows the error page
SearchFailureShown ==
    /\ pc = "error_page"
    /\ search_status = "failed"
    /\ result = "error"

\* position of a PMID in the order of publications.append
AppendIndex(pmid) == CHOOSE k \in 1..Len(appended) : appended[k] = pmid

\* C8: the returned list is in descending lexical order of Year, and
\* publications of equal Year are in the order they were appended; the
\* enricher leaves the order as the sort made it.
SortedByYearDescStable ==
    result = "list" =>
        /\ Len(publications) = Len(appended)
        /\ \A a, b \in 1..Len(publications) :
              a < b =>
                 /\ ~LexLess(publications[a].Year, publications[b].Year)
                 /\ publications[a].Year = publications[b].Year
                       => AppendIndex(publications[a].PMID)
                            < AppendIndex(publications[b].PMID)

\* C8's case: a returned, enriched list with a tie and with two different
\* years, which the sort had to reorder
SortReorderedWithTie ==
    /\ result = "list"
    /\ enrich_log # <<>>
    /\ PMIDsOf(publications) # appended
    /\ \E a, b \in 1..Len(publications) :
          a < b /\ publications[a].Year = publications[b].Year
    /\ \E a, b \in 1..Len(publications) :
          publications[a].Year # publications[b].Year

(***************************************************************************)
(* Properties of the record loop (specification SpecFilter).               *)
(***************************************************************************)
\* the last name of an entry of Publication.authors: its first token, as
\* highlight_authors (lines 305-306) reads it
DisplayLastName(entry) == entry[1]

\* the 1-based places of Publication.authors that hold the searched name
PlacesInAuthors(authors) ==
    {k \in 1..Len(authors) : Upper(DisplayLastName(authors[k])) = search_last_name}

\* the 0-based index of the first of them
FirstIndexInAuthors(authors) ==
    (CHOOSE k \in PlacesInAuthors(authors) :
        \A other \in PlacesInAuthors(authors) : k <= other) - 1

\* C6: with filtering on, a record that normalizes and whose
\* Publication.authors holds the searched last name first at index i of n
\* is retained iff i < 2 or i >= n - 2, whatever the shapes of the source
\* author entries.
RetainedIffFirstOrLastTwo ==
    (/\ pc = "processed"
     /\ filter_author_position
     /\ db[1].missing = {}
     /\ PlacesInAuthors(Authors(db[1].AuthorList)) # {})
        => LET authors == Authors(db[1].AuthorList)
               idx == FirstIndexInAuthors(authors)
           IN  (publications # <<>>) <=> (idx < 2 \/ idx >= Len(authors) - 2)

\* C7: with filtering on, no publication of the output lacks the searched
\* last name in its author list; with filtering off, every record that
\* normalizes is retained.
OutputNamesSearchedAuthor ==
    pc = "processed" =>
        /\ filter_author_position =>
              \A k \in 1..Len(publications) :
                 PlacesInAuthors(publications[k].Authors) # {}
        /\ (~filter_author_position /\ db[1].missing = {}) => publications # <<>>

(***************************************************************************)
(* Properties of the imputer (specification SpecImpute).                   *)
(***************************************************************************)
\* impact_ratio is present and float() accepts it
RCRParseable(pub) ==
    /\ "RCR" \in DOMAIN pub
    /\ \/ pub.RCR.t = "num"
       \/ pub.RCR.t = "str" /\ FloatParses(pub.RCR.s)

\* the number impact_ratio stands for
RCRNumber(pub) == IF pub.RCR.t = "num" THEN pub.RCR ELSE FloatOfStr(pub.RCR.s)

\* impact_ratio is absent: no key, None or the empty string
RCRAbsent(pub) == "RCR" \notin DOMAIN pub \/ pub.RCR \in {None, Str("")}

\* C9: a present, parseable impact_ratio, zero included, is what
\* compute_imputed_metrics stores in imputed_impact.
ImputedIsImpactRatio ==
    pc = "imputed" =>
        \A k \in 1..Len(publications) :
            RCRParseable(publications[k])
                => publications[k].RCR_imputed = RCRNumber(publications[k])

\* C10: with impact_ratio absent, a year that parses and a citation_count
\* that is an integer >= 0, imputed_impact is citation_count + 1 when
\* years_since <= 0 and citation_count / years_since when years_since > 0.
ImputedIsCitationVelocity ==
    pc = "imputed" =>
        \A k \in 1..Len(publications) :
            LET pub == publications[k]
            IN  (/\ RCRAbsent(pub)
                 /\ IntParses(pub.Year)
                 /\ "Citation_Count" \in DOMAIN pub
                 /\ pub.Citation_Count.t = "num"
                 /\ pub.Citation_Count.d = 1
                 /\ pub.Citation_Count.n >= 0)
                    => LET years_since == now - IntValue(pub.Year)
                           count == pub.Citation_Count.n
                       IN  pub.RCR_imputed =
                              IF years_since <= 0 THEN IntVal(count + 1)
                              ELSE Num(count, years_since)

\* C10, amended: with impact_ratio absent, a year that parses and a
\* citation_count that is an integer >= 1, imputed_impact is
\* citation_count + 1 when years_since <= 0 and
\* citation_count / years_since when years_since > 0; a citation_count of 0
\* counts as missing and gives imputed_impact = 0 whatever years_since.
ImputedIsVelocityOfPositiveCount ==
    pc = "imputed" =>
        \A k \in 1..Len(publications) :
            LET pub == publications[k]
            IN  (/\ RCRAbsent(pub)
                 /\ IntParses(pub.Year)
                 /\ "Citation_Count" \in DOMAIN pub
                 /\ pub.Citation_Count.t = "num"
                 /\ pub.Citation_Count.d = 1
                 /\ pub.Citation_Count.n >= 0)
                    => LET years_since == now - IntValue(pub.Year)
                           count == pub.Citation_Count.n
                       IN  pub.RCR_imputed =
                              IF count = 0 THEN IntVal(0)
                              ELSE IF years_since <= 0 THEN IntVal(count + 1)
                              ELSE Num(count, years_since)

\* C10's case: year 2025, 3 citations, no impact_ratio, imputed in 2025
RecentPaperGetsBonus ==
    /\ pc = "imputed"
    /\ now = 2025
    /\ RCRAbsent(publications[1])
    /\ publications[1].Year = Y2025
    /\ "Citation_Count" \in DOMAIN publications[1]
    /\ publications[1].Citation_Count = IntVal(3)
    /\ publications[1].RCR_imputed = IntVal(4)

\* pub with the RCR_imputed key taken away
WithoutImputed(pub) == [key \in DOMAIN pub \ {"RCR_imputed"} |-> pub[key]]

\* C11: with the year fixed, a second run of the imputer
\* (compute_imputed_metrics, or the copy in build_html_content) leaves
\* every record as the first run left it, and a run changes no field
\* other than imputed_impact.
ImputerIsIdempotent ==
    /\ pc \in {"imputed", "imputed_twice"} =>
          \A k \in 1..Len(publications) :
             /\ "RCR_imputed" \in DOMAIN publications[k]
             /\ WithoutImputed(publications[k]) = snapshots[1][k]
    /\ pc = "imputed_twice" => publications = snapshots[2]

\* C11's case: a record whose imputed_impact is an estimate other than 0,
\* imputed a second time
EstimateImputedTwice ==
    /\ pc = "imputed_twice"
    /\ RCRAbsent(publications[1])
    /\ publications[1].RCR_imputed # IntVal(0)
    /\ "RCR_imputed" \in DOMAIN snapshots[2][1]

StageRank(stage) ==
    CASE stage = "search" -> 0
      [] stage = "fetch"  -> 1
      [] stage = "sort"   -> 2
      [] stage = "enrich" -> 3
      [] stage = "impute" -> 4

RecordFailureSkipsOnlyThatRecord ==
    /\ \A c \in 1..Len(fetch_log) :
          fetch_log[c].ok =>
             \A k \in 1..Len(fetch_log[c].batch) :
                LET record == db[fetch_log[c].batch[k]]
                    outcome == RecordOutcome(record, search_last_name,
                                             filter_author_position)
                    pmid == IntToStr(record.PMID)
                IN  /\ outcome # "appended" =>
                          \A p \in 1..Len(publications) : publications[p].PMID # pmid
                    /\ outcome = "appended" =>
                          \E p \in 1..Len(publications) :
                             publications[p] = PubInfo(record)
    /\ \A p \in 1..Len(publications) :
          DOMAIN publications[p] = {"PMID", "Year", "Authors"}

\* C13's case: the first record of the first batch fails, the second record
\* of that batch and the record of the next batch are in the list
FailedRecordThenGoodOnes ==
    /\ Len(fetch_log) = 2
    /\ fetch_log[1].ok
    /\ fetch_log[2].ok
    /\ Len(db) = 3
    /\ RecordOutcome(db[1], search_last_name, filter_author_position) = "error"
    /\ PMIDsOf(publications) \in {<<<<2>>, <<3>>>>, <<<<3>>, <<2>>>>}

(***************************************************************************)
(* A failed enrich batch (specification Spec).                             *)
(***************************************************************************)
\* the step is an enrich call that failed: another status or an exception
EnrichCallFailed ==
    /\ pc = "enrich"
    /\ Len(enrich_log') = Len(enrich_log) + 1
    /\ enrich_log'[Len(enrich_log')].status # "ok"

\* C14: when an enrich batch fails, every publication that has citation
\* fields keeps all its fields unchanged, every publication without them
\* gets the three explicit empty fields and no other change, and the loop
\* moves on to the next batch.
FailedEnrichBatchKeepsFields ==
    [][EnrichCallFailed =>
          /\ Len(publications') = Len(publications)
          /\ \A k \in 1..Len(publications) :
                IF "Citation_Count" \in DOMAIN publications[k]
                THEN publications'[k] = publications[k]
                ELSE /\ HasEmptyCitationData(publications'[k])
                     /\ DOMAIN publications'[k]
                           = DOMAIN publications[k] \cup CitationKeys
                     /\ \A key \in DOMAIN publications[k] :
                           publications'[k][key] = publications[k][key]
          /\ pc' = "enrich"
          /\ j' = j + EnrichBatchSize]_vars

\* C14's case: the first batch was answered and left real values, the
\* second batch failed
FailureAfterRealValues ==
    /\ Len(enrich_log) = 2
    /\ enrich_log[1].status = "ok"
    /\ enrich_log[2].status # "ok"
    /\ \E k \in 1..Len(publications) :
          /\ CitationKeys \subseteq DOMAIN publications[k]
          /\ ~HasEmptyCitationData(publications[k])

(***************************************************************************)
(* Termination and the batches (specification SpecLive).                   *)
(***************************************************************************)
\* ceil(n / size)
CeilDiv(n, size) == (n + size - 1) \div size

\* the batches of the calls of a log, one after the other
RECURSIVE Batches(_)
Batches(log) == IF log = <<>> THEN <<>> ELSE Head(log).batch \o Batches(Tail(log))

\* the calls issued so far are the batches in index order, each once; a
\* returned list has had every fetch batch and every enrich batch; an
\* empty IdList returns at once with no call
EveryBatchOnceInOrder ==
    /\ \A c \in 1..Len(fetch_log) :
          /\ fetch_log[c].start = (c - 1) * FetchBatchSize
          /\ fetch_log[c].batch = Slice(ids, fetch_log[c].start, FetchBatchSize)
    /\ \A c \in 1..Len(enrich_log) :
          /\ enrich_log[c].start = (c - 1) * EnrichBatchSize
          /\ enrich_log[c].batch = Slice(pmids, enrich_log[c].start, EnrichBatchSize)
    /\ result = "list" =>
          /\ Len(fetch_log) = CeilDiv(Len(ids), FetchBatchSize)
          /\ Batches(fetch_log) = ids
          /\ Len(enrich_log) = CeilDiv(Len(publications), EnrichBatchSize)
          /\ Batches(enrich_log) = PMIDsOf(publications)
    /\ (search_status = "ok" /\ ids = <<>>) =>
          /\ result = "list"
          /\ publications = <<>>
          /\ fetch_log = <<>>
          /\ enrich_log = <<>>

\* fetch_author_publications has returned or raised
RunEnded == pc \notin {"start", "fetch", "enrich"}

\* C15: every run ends, and after a successful search it ends by
\* returning the list, having attempted each of the ceil(n / batch size)
\* fetch batches and each of the ceil(m / batch size) enrich batches
\* exactly once in index order, whatever their outcomes; with no
\* identifiers it returns the empty list without any fetch or enrich call.
RunTerminatesEveryBatchOnce ==
    /\ []EveryBatchOnceInOrder
    /\ [](RunEnded /\ search_status = "ok" => result = "list")
    /\ <>RunEnded

\* C15's case: three identifiers in two fetch batches of which the second
\* failed, two surviving records in one enrich batch that failed, returned
RunWithFailuresReturned ==
    /\ result = "list"
    /\ Len(ids) = 3
    /\ Len(publications) = 2
    /\ Len(fetch_log) = 2
    /\ ~fetch_log[2].ok
    /\ Len(enrich_log) = 1
    /\ enrich_log[1].status # "ok"

====
